---- MODULE Spec2Model ----
(***************************************************************************)
(* Request dispatch and response rendering of kocha.                       *)
(*                                                                         *)
(* Two dispatch entry points are in the sources: Application.ServeHTTP /   *)
(* Application.render (kocha.go), which runs the middleware chain and      *)
(* recovers faults in a deferred block, and the plain handler (server.go), *)
(* which has no middleware.  The renderer functions (renderer.go) and      *)
(* Controller.Render (controller.go) are operators; the handler action of  *)
(* a request applies one of them.  Under Spec one request is in flight at  *)
(* a time; SpecConcurrent interleaves the steps of several dispatches and  *)
(* records the locations each reads and writes.  SpecRun is the startup    *)
(* (New, Run) and SpecNormPath the path normalisation of the router.       *)
(* SpecContext follows the Controller structs of one render through the    *)
(* stages, and SpecCopyTemplate is CopyTemplate of the generators          *)
(* (util.go).                                                              *)
(*                                                                         *)
(* The response body is a string; what http.Error writes is its message    *)
(* followed by a line feed (fmt.Fprintln).  The Data bag of a context and  *)
(* the request parameters are not represented.                             *)
(***************************************************************************)
EXTENDS Naturals, Integers, Sequences, FiniteSets, TLC

VARIABLES
    pc,         \* position of the request in flight
    entry,      \* "app" (Application.ServeHTTP), "handler" (server.go), "none"
    path,       \* request path
    field,      \* kind of the controller's Controller field
    cc,         \* the *Controller of Application.render
    response,   \* the Response wrapper: StatusCode and ContentType
    wire,       \* what the http.ResponseWriter has received
    result,     \* the Result of the handler action or of the error controller
    idx,        \* index of the next middleware in the running loop
    beforeLog,  \* middlewares whose Before hook was called, in call order
    afterLog,   \* middlewares whose After hook was called, in call order
    invoked,    \* number of calls of the handler action
    log,        \* the errors logged, in order
    fault,      \* the panic in flight: where it was raised and its error
    first,      \* the first panic of the request
    escaped,    \* a panic left the dispatch entry point
    call,       \* the renderer call made by the handler action or the recovery
    served,     \* statuses of the completed requests with no matching route
    startup,    \* Run: its position, the Config, what New returned, what Run did
    normed,     \* normPath: the path given and the result
    dispatches, \* concurrent dispatches: position, path and objects of each
    mem,        \* concurrent dispatches: the Name held at each Controller location
    readers,    \* concurrent dispatches: who has read each location
    writers,    \* concurrent dispatches: who has written each location
    copying,    \* CopyTemplate: its position, the destination file, what was asked
    threading   \* the Controller objects of one render and what each stage found

\* The state of the request in flight.
request == <<pc, entry, path, field, cc, response, wire, result, idx, beforeLog,
             afterLog, invoked, log, fault, first, escaped, call, served>>

\* The state of concurrent dispatches.
shared == <<dispatches, mem, readers, writers>>

\* What serving a request leaves alone.
aside == <<startup, normed, dispatches, mem, readers, writers, copying, threading>>

vars == <<request, aside>>

---------------------------------------------------------------------------
(* Bounds *)

NumMiddlewares == 2
MaxServed == 2

Middlewares == 1..NumMiddlewares

---------------------------------------------------------------------------
(* Program constants *)

StatusOK == 200
StatusNotFound == 404
StatusInternalServerError == 500
DefaultMaxClientBodySize == 10485760

\* Kinds of request body: multipart, urlencoded, or one that is not parsed.
Forms == {"multipart", "urlencoded", "other"}

\* Body sizes around the limit of http.MaxBytesReader.
BodySizes(limit) == {0, limit, limit + 1}

\* net/http.StatusText for the codes the dispatch emits.
StatusText(code) ==
    CASE code = StatusOK -> "OK"
      [] code = StatusNotFound -> "Not Found"
      [] code = StatusInternalServerError -> "Internal Server Error"
      [] OTHER -> ""

\* controller.go: the MIME type -> format table.
MimeTypeFormats ==
    ("application/json" :> "json") @@ ("application/xml" :> "xml") @@
    ("text/html" :> "html") @@ ("text/plain" :> "txt")

\* mimeTypeFormats.Get: a missing key reads as the empty string.
MimeTypeFormatsGet(mimeType) ==
    IF mimeType \in DOMAIN MimeTypeFormats THEN MimeTypeFormats[mimeType] ELSE ""

\* Content types a handler may leave on the response ("" is: none set).
ContentTypes ==
    {"", "application/json", "application/xml", "text/html", "text/plain", "image/png"}

\* Request paths; the routes are those of the test fixture.
Routes == {"/", "/user/7", "/error"}
Paths == Routes \cup {"/missing"}

\* Router.dispatch: the controller of a path, none for a path with no route.
dispatch(p) == IF p \in Routes THEN "controller" ELSE "none"

\* Name of the error template of a status code, as in "errors/500.xml".
errorTemplateName(statusCode) == "errors/" \o ToString(statusCode)

\* Output of executing the template of (name, format).
TemplateOutput(name, format) == "<" \o name \o "." \o format \o ">"

\* Output of executing the template of a controller with the data the handler
\* action handed to it, as in "tmpl2-7"; the error templates take no data.
Execute(name, format, data) ==
    TemplateOutput(name, format) \o (IF data = "" THEN "" ELSE "-" \o data)

\* The path parameters Router.dispatch extracts, which the handler action
\* hands to its template.
Args(p) == IF p = "/user/7" THEN "7" ELSE ""

---------------------------------------------------------------------------
(* The response writer *)

NewWire == [status |-> 0, ct |-> "", body |-> "", headerWrites |-> 0]

\* http.ResponseWriter.WriteHeader: the first call decides the status.
WriteHeader(w, code) ==
    [w EXCEPT !.status = IF w.status = 0 THEN code ELSE w.status,
              !.headerWrites = w.headerWrites + 1]

\* http.ResponseWriter.Write: an implicit WriteHeader(200) before the first byte.
Write(w, bytes) ==
    [w EXCEPT !.status = IF w.status = 0 THEN StatusOK ELSE w.status,
              !.body = w.body \o bytes]

\* http.Error: plain-text content type, the status, the message as a line.
HttpError(w, msg, code) ==
    LET h == [w EXCEPT !.ct = IF w.status = 0 THEN "text/plain; charset=utf-8" ELSE w.ct]
    IN  Write(WriteHeader(h, code), msg \o "\n")

---------------------------------------------------------------------------
(* The renderer *)

NewResponse == [StatusCode |-> StatusOK, ContentType |-> ""]

NilController ==
    [isNil |-> TRUE, Name |-> "", Format |-> "", Data |-> "", hasRequest |-> FALSE,
     hasResponse |-> FALSE, hasApp |-> FALSE]

ZeroController == [NilController EXCEPT !.isNil = FALSE]

setContentTypeIfNotExists(r, contentType) ==
    IF r.ContentType = "" THEN [r EXCEPT !.ContentType = contentType] ELSE r

\* The format of the context, derived from the content type when none is set.
setFormatFromContentTypeIfNotExists(c, r) ==
    IF c.Format # "" THEN [c |-> c, err |-> FALSE]
    ELSE LET f == MimeTypeFormatsGet(r.ContentType)
         IN  [c |-> [c EXCEPT !.Format = f], err |-> (f = "")]

\* What a renderer call hands back: the context and response it leaves, how it
\* ended ("ok", "err": an error returned, "panic"), the bytes it rendered,
\* whether it looked a template up, and the renderer functions entered.
Outcome(c, r, ret, err, out, wrote, lookedUp) ==
    [c |-> c, r |-> r, ret |-> ret, err |-> err, out |-> out, wrote |-> wrote,
     lookedUp |-> lookedUp, calls |-> <<>>]

\* The outcome o of a call made inside the function fn.
Enter(fn, o) == [o EXCEPT !.calls = <<fn>> \o @]

\* Faulty variant: the template lookup comes before the format is resolved.
RenderLookupFirst(c, r, found, execOK) ==
    LET r1 == setContentTypeIfNotExists(r, "text/html")
        f == setFormatFromContentTypeIfNotExists(c, r1)
    IN  IF ~found THEN Outcome(f.c, r1, "err", "no template", "", FALSE, TRUE)
        ELSE IF ~execOK THEN Outcome(f.c, r1, "err", "execute", "", FALSE, TRUE)
        ELSE Outcome(f.c, r1, "ok", "", Execute(c.Name, f.c.Format, c.Data), TRUE, TRUE)

\* Render(c, data): c.Data is the Data bag after c.setData(data); found and
\* execOK are the outcomes of Template.Get and of Template.Execute.
Render(c, r, found, execOK) ==
    LET r1 == setContentTypeIfNotExists(r, "text/html")
        f == setFormatFromContentTypeIfNotExists(c, r1)
    IN  IF f.err THEN Outcome(c, r1, "err", "unknown Content-Type", "", FALSE, FALSE)
        ELSE IF ~found THEN Outcome(f.c, r1, "err", "no template", "", FALSE, TRUE)
        ELSE IF ~execOK THEN Outcome(f.c, r1, "err", "execute", "", FALSE, TRUE)
        ELSE Outcome(f.c, r1, "ok", "", Execute(c.Name, f.c.Format, c.Data), TRUE, TRUE)

\* Faulty variant: RenderJSON sets its content type whatever the response has.
RenderJSONForcesContentType(c, r, marshalOK) ==
    LET r1 == [r EXCEPT !.ContentType = "application/json"]
    IN  IF ~marshalOK THEN Outcome(c, r1, "err", "json.Marshal", "", FALSE, FALSE)
        ELSE Outcome(c, r1, "ok", "", "json:" \o c.Data, TRUE, FALSE)

\* RenderJSON(c, data): c.Data is the Data bag after c.setData(data), marshalOK
\* the outcome of json.Marshal.
RenderJSON(c, r, marshalOK) ==
    LET r1 == setContentTypeIfNotExists(r, "application/json")
    IN  IF ~marshalOK THEN Outcome(c, r1, "err", "json.Marshal", "", FALSE, FALSE)
        ELSE Outcome(c, r1, "ok", "", "json:" \o c.Data, TRUE, FALSE)

\* RenderXML(c, data).
RenderXML(c, r, marshalOK) ==
    LET r1 == setContentTypeIfNotExists(r, "application/xml")
    IN  IF ~marshalOK THEN Outcome(c, r1, "err", "xml.Marshal", "", FALSE, FALSE)
        ELSE Outcome(c, r1, "ok", "", "xml:" \o c.Data, TRUE, FALSE)

\* RenderText(c, content).
RenderText(c, r, content) ==
    Outcome(c, setContentTypeIfNotExists(r, "text/plain"), "ok", "", content, TRUE, FALSE)

\* Faulty variant: the plain-text fallback keeps the content type it found.
RenderErrorKeepsContentType(c, r, statusCode, found, execOK) ==
    IF ~c.hasResponse THEN Outcome(c, r, "panic", "nil Response", "", FALSE, FALSE)
    ELSE
    LET r1 == setContentTypeIfNotExists(r, "text/html")
        f == setFormatFromContentTypeIfNotExists(c, r1)
        r2 == [r1 EXCEPT !.StatusCode = statusCode]
        c2 == [f.c EXCEPT !.Name = errorTemplateName(statusCode)]
    IN  IF f.err THEN Outcome(c, r1, "err", "unknown Content-Type", "", FALSE, FALSE)
        ELSE IF ~c.hasApp THEN Outcome(c2, r2, "panic", "nil App", "", FALSE, FALSE)
        ELSE IF ~found
             THEN Outcome(c2, r2, "ok", "", StatusText(statusCode), TRUE, TRUE)
        ELSE IF ~execOK THEN Outcome(c2, r2, "err", "execute", "", FALSE, TRUE)
        ELSE Outcome(c2, r2, "ok", "", TemplateOutput(c2.Name, c2.Format), TRUE, TRUE)

\* Faulty variant: the plain-text fallback also covers a failed template execution.
RenderErrorFallsBackOnExecute(c, r, statusCode, found, execOK) ==
    IF ~c.hasResponse THEN Outcome(c, r, "panic", "nil Response", "", FALSE, FALSE)
    ELSE
    LET r1 == setContentTypeIfNotExists(r, "text/html")
        f == setFormatFromContentTypeIfNotExists(c, r1)
        r2 == [r1 EXCEPT !.StatusCode = statusCode]
        c2 == [f.c EXCEPT !.Name = errorTemplateName(statusCode)]
    IN  IF f.err THEN Outcome(c, r1, "err", "unknown Content-Type", "", FALSE, FALSE)
        ELSE IF ~c.hasApp THEN Outcome(c2, r2, "panic", "nil App", "", FALSE, FALSE)
        ELSE IF ~found \/ ~execOK
             THEN Outcome(c2, [r2 EXCEPT !.ContentType = "text/plain"], "ok", "",
                          StatusText(statusCode), TRUE, TRUE)
        ELSE Outcome(c2, r2, "ok", "", TemplateOutput(c2.Name, c2.Format), TRUE, TRUE)

\* RenderError(c, statusCode, data).  A context without Response or without App
\* makes the call panic on the nil pointer, at the line that reads it.
RenderError(c, r, statusCode, found, execOK) ==
    IF ~c.hasResponse THEN Outcome(c, r, "panic", "nil Response", "", FALSE, FALSE)
    ELSE
    LET r1 == setContentTypeIfNotExists(r, "text/html")
        f == setFormatFromContentTypeIfNotExists(c, r1)
        r2 == [r1 EXCEPT !.StatusCode = statusCode]
        c2 == [f.c EXCEPT !.Name = errorTemplateName(statusCode)]
    IN  IF f.err THEN Outcome(c, r1, "err", "unknown Content-Type", "", FALSE, FALSE)
        ELSE IF ~c.hasApp THEN Outcome(c2, r2, "panic", "nil App", "", FALSE, FALSE)
        ELSE IF ~found
             THEN Outcome(c2, [r2 EXCEPT !.ContentType = "text/plain"], "ok", "",
                          StatusText(statusCode), TRUE, TRUE)
        ELSE IF ~execOK THEN Outcome(c2, r2, "err", "execute", "", FALSE, TRUE)
        ELSE Outcome(c2, r2, "ok", "", TemplateOutput(c2.Name, c2.Format), TRUE, TRUE)

StaticDir == "public"
AppPath == "/app"

\* The files SendFile is asked for: a name below a directory, asked for by an
\* absolute path or by a relative one.
FileNames == {"logo.png", "notes"}
FilePath(abs, name) == IF abs THEN "/srv/" \o name ELSE name

\* filepath.Join(c.App.Config.AppPath, StaticDir, path).
Join(appPath, dir, p) == appPath \o "/" \o dir \o "/" \o p

\* util.DetectContentTypeByExt: the MIME type of the extension, "" without one.
DetectContentTypeByExt(name) == IF name = "logo.png" THEN "image/png" ELSE ""

\* util.DetectContentTypeByBody: what sniffing the content gives.
DetectContentTypeByBody(content) == "text/plain; charset=utf-8"

\* What ResourceSet.Get may hand back, and what the disk may hold at a path.
ResourceKinds == {"absent", "string", "bytes", "other"}
DiskKinds == {"missing", "unreadable", "file"}

\* The inputs of SendFile besides the context: the path (abs, name), the
\* resource of that path, the disk at the path stat is called with, and the
\* outcomes of Template.Get and Template.Execute for the 404 template.  The
\* template outcomes are drawn only where the 404 is rendered.
FileCases ==
    {f \in [abs : BOOLEAN, name : FileNames, rc : ResourceKinds, disk : DiskKinds,
            found : BOOLEAN, execOK : BOOLEAN] :
        /\ (f.rc \in {"string", "bytes"} \/ f.disk # "missing") => (~f.found /\ ~f.execOK)
        /\ f.execOK => f.found}

\* Faulty variant: SendFile answers a missing file with an empty 200.
SendFileIgnoresMissing(c, r, f) ==
    LET p == FilePath(f.abs, f.name)
        embedded == f.rc \in {"string", "bytes"}
        fsPath == IF f.abs THEN p ELSE Join(AppPath, StaticDir, p)
        last == IF embedded THEN p ELSE fsPath
        content == IF embedded THEN "resource:" \o p ELSE "file:" \o fsPath
        byExt == DetectContentTypeByExt(f.name)
        ct == IF byExt # "" THEN byExt ELSE DetectContentTypeByBody(content)
    IN  Enter("SendFile",
            IF ~c.hasApp THEN Outcome(c, r, "panic", "nil App", "", FALSE, FALSE)
            ELSE IF ~embedded /\ f.disk = "missing"
                 THEN Outcome(c, r, "ok", "", "", TRUE, FALSE)
            ELSE IF ~embedded /\ f.disk = "unreadable"
                 THEN Outcome(c, r, "err", "open", "", FALSE, FALSE)
            ELSE IF ~c.hasResponse
                 THEN Outcome(c, r, "panic", "nil Response", "", FALSE, FALSE)
            ELSE Outcome(c, [r EXCEPT !.ContentType = ct], "ok", "", content, TRUE, FALSE))

\* SendFile(c, path).  The resource set is asked for every path; only when it
\* has no string or []byte for it the disk is read, at the path itself when it
\* is absolute and at AppPath/public/path otherwise.  The content read says
\* where it came from.
SendFile(c, r, f) ==
    LET p == FilePath(f.abs, f.name)
        embedded == f.rc \in {"string", "bytes"}
        fsPath == IF f.abs THEN p ELSE Join(AppPath, StaticDir, p)
        content == IF embedded THEN "resource:" \o p ELSE "file:" \o fsPath
        byExt == DetectContentTypeByExt(f.name)
        ct == IF byExt # "" THEN byExt ELSE DetectContentTypeByBody(content)
    IN  Enter("SendFile",
            IF ~c.hasApp THEN Outcome(c, r, "panic", "nil App", "", FALSE, FALSE)
            ELSE IF ~embedded /\ f.disk = "missing"
                 THEN Enter("RenderError",
                            RenderError(c, r, StatusNotFound, f.found, f.execOK))
            ELSE IF ~embedded /\ f.disk = "unreadable"
                 THEN Outcome(c, r, "err", "open", "", FALSE, FALSE)
            ELSE IF ~c.hasResponse
                 THEN Outcome(c, r, "panic", "nil Response", "", FALSE, FALSE)
            ELSE Outcome(c, [r EXCEPT !.ContentType = ct], "ok", "", content, TRUE, FALSE))

\* Controller.Render of controller.go: nctx is the number of contexts passed
\* (c.Data holds the one passed), found the outcome of TemplateSet.Get.  It panics instead of returning an error.
ControllerRender(c, r, nctx, found) ==
    LET format == MimeTypeFormatsGet(r.ContentType)
    IN  IF nctx > 1 THEN Outcome(c, r, "panic", "too many arguments", "", FALSE, FALSE)
        ELSE IF format = ""
             THEN Outcome(c, r, "panic", "unknown Content-Type", "", FALSE, FALSE)
        ELSE IF ~found THEN Outcome(c, r, "panic", "no template", "", FALSE, TRUE)
        ELSE Outcome(c, r, "ok", "", Execute(c.Name, format, c.Data), TRUE, TRUE)

\* An action that renders hands back a Result when the renderer call ended
\* without error; an error the call returns, like a panic of the call, is a
\* fault of the action.
Faults(o) == o.ret # "ok"

NoCall == [fn |-> "none"]

\* The record of a renderer call: the function, its inputs (arg is the status
\* code of RenderError, the number of contexts of Controller.Render, the file
\* case of SendFile) and its outcome.
Called(fn, c, r, arg, found, execOK, o) ==
    [fn |-> fn, cIn |-> c, rIn |-> r, arg |-> arg, found |-> found,
     execOK |-> execOK, o |-> o]

---------------------------------------------------------------------------
(* State of a dispatch *)

NoResult == [kind |-> "none", body |-> ""]
NilResult == [kind |-> "nil", body |-> ""]
Content(body) == [kind |-> "content", body |-> body]

\* ac.Type().Name(): the name of the controller type of a path.
ControllerName(p) ==
    CASE p = "/" -> "Root"
      [] p = "/user/7" -> "User"
      [] p = "/error" -> "Error"
      [] OTHER -> "ErrorController"

\* What a handler action may do: render its template, render its data as JSON
\* or XML, render a text, send a file, answer 404 through RenderError, return a
\* nil Result, or panic.
HandlerActs == {"render", "json", "xml", "text", "sendfile", "notfound", "nil", "panic"}

\* A panic: at is where it was raised ("bug": the switch on the Controller
\* field, "parse", "before", "invoke": the handler action, "get": the 500
\* ErrorController, "after", "proc"), err its error.
Panic(at, err) == [at |-> at, err |-> err]
NoPanic == Panic("none", "")

\* The application is listening and no request is in flight.
Idle ==
    /\ pc = "idle"
    /\ entry = "none"
    /\ path = ""
    /\ field = "none"
    /\ cc = NilController
    /\ response = NewResponse
    /\ wire = NewWire
    /\ result = NoResult
    /\ idx = 0
    /\ beforeLog = <<>>
    /\ afterLog = <<>>
    /\ invoked = 0
    /\ log = <<>>
    /\ fault = NoPanic
    /\ first = NoPanic
    /\ escaped = FALSE
    /\ call = NoCall
    /\ served = <<>>

Raise(at, err) ==
    /\ fault' = Panic(at, err)
    /\ first' = IF first = NoPanic THEN Panic(at, err) ELSE first

NoRaise == UNCHANGED <<fault, first>>

\* A request is accepted while the record of unmatched requests has room.
Accepts(p) == dispatch(p) # "none" \/ Len(served) < MaxServed

---------------------------------------------------------------------------
(* Application.ServeHTTP and Application.render (kocha.go) *)

\* Faulty variant: ServeHTTP answers a path with no route itself and returns.
ServeHTTPShortCircuit ==
    /\ pc = "idle"
    /\ \E p \in Paths, fk \in {"value", "pointer", "other"} :
        /\ Accepts(p)
        /\ path' = p
        /\ field' = IF dispatch(p) = "none" THEN "pointer" ELSE fk
        /\ IF dispatch(p) = "none"
           THEN /\ cc' = NilController
                /\ NoRaise
                /\ pc' = "done"
                /\ wire' = HttpError(NewWire, StatusText(StatusNotFound), StatusNotFound)
           ELSE /\ wire' = NewWire
                /\ IF field' = "other"
                   THEN /\ cc' = NilController
                        /\ Raise("bug", "BUG: Controller field")
                        /\ pc' = "recover"
                   ELSE /\ cc' = ZeroController
                        /\ NoRaise
                        /\ pc' = "parse"
    /\ entry' = "app"
    /\ response' = NewResponse
    /\ UNCHANGED <<result, idx, beforeLog, afterLog, invoked, log, escaped, call, served>>
    /\ UNCHANGED aside

\* ServeHTTP, and render up to the switch on the Controller field: an
\* unmatched path gets the 404 ErrorController, whose field is a *Controller.
ServeHTTP ==
    /\ pc = "idle"
    /\ \E p \in Paths, fk \in {"value", "pointer", "other"} :
        /\ Accepts(p)
        /\ path' = p
        /\ field' = IF dispatch(p) = "none" THEN "pointer" ELSE fk
        /\ IF field' = "other"
           THEN /\ cc' = NilController
                /\ Raise("bug", "BUG: Controller field")
                /\ pc' = "recover"
           ELSE /\ cc' = ZeroController
                /\ NoRaise
                /\ pc' = "parse"
    /\ entry' = "app"
    /\ response' = NewResponse
    /\ wire' = NewWire
    /\ UNCHANGED <<result, idx, beforeLog, afterLog, invoked, log, escaped, call, served>>
    /\ UNCHANGED aside

\* The error of request.ParseMultipartForm for a body of the given form and
\* size read through http.MaxBytesReader: a body that is not parsed gives
\* ErrNotMultipart whatever its size; a parsed one fails when it is longer than
\* the limit or malformed; a well-formed urlencoded body gives ErrNotMultipart.
ParseMultipartForm(form, size, malformed, limit) ==
    CASE form = "other" -> "ErrNotMultipart"
      [] size > limit -> "http: request body too large"
      [] malformed -> "malformed body"
      [] form = "urlencoded" -> "ErrNotMultipart"
      [] OTHER -> "nil"

\* Faulty variant: the error of the body parse leaves render as a panic.
ParseFormUnrecovered ==
    /\ pc = "parse"
    /\ \E form \in Forms, size \in BodySizes(startup.config.MaxClientBodySize),
          malformed \in BOOLEAN :
        LET err == ParseMultipartForm(form, size, malformed,
                                      startup.config.MaxClientBodySize)
        IN  IF err \in {"nil", "ErrNotMultipart"}
            THEN /\ cc' = [cc EXCEPT !.Name = ControllerName(path), !.hasRequest = TRUE,
                                     !.hasResponse = TRUE, !.hasApp = TRUE]
                 /\ idx' = 1
                 /\ pc' = "before"
                 /\ NoRaise
                 /\ escaped' = escaped
            ELSE /\ Raise("parse", err)
                 /\ pc' = "done"
                 /\ escaped' = TRUE
                 /\ UNCHANGED <<cc, idx>>
    /\ UNCHANGED <<entry, path, field, response, wire, result, beforeLog, afterLog,
                   invoked, log, call, served>>
    /\ UNCHANGED aside

\* request.ParseMultipartForm on the body wrapped by http.MaxBytesReader: an
\* error other than ErrNotMultipart is a panic; otherwise the fields of the
\* context are set.
ParseForm ==
    /\ pc = "parse"
    /\ \E form \in Forms, size \in BodySizes(startup.config.MaxClientBodySize),
          malformed \in BOOLEAN :
        LET err == ParseMultipartForm(form, size, malformed,
                                      startup.config.MaxClientBodySize)
        IN  IF err \in {"nil", "ErrNotMultipart"}
            THEN /\ cc' = [cc EXCEPT !.Name = ControllerName(path), !.hasRequest = TRUE,
                                     !.hasResponse = TRUE, !.hasApp = TRUE]
                 /\ idx' = 1
                 /\ pc' = "before"
                 /\ NoRaise
            ELSE /\ Raise("parse", err)
                 /\ pc' = "recover"
                 /\ UNCHANGED <<cc, idx>>
    /\ UNCHANGED <<entry, path, field, response, wire, result, beforeLog, afterLog,
                   invoked, log, escaped, call, served>>
    /\ UNCHANGED aside

\* m.Before(app, cc) of the next middleware: it returns or panics.
Before ==
    /\ pc = "before"
    /\ idx \in Middlewares
    /\ beforeLog' = Append(beforeLog, idx)
    /\ \E ok \in BOOLEAN :
        IF ok
        THEN /\ idx' = idx + 1
             /\ pc' = "before"
             /\ NoRaise
        ELSE /\ Raise("before", "panic")
             /\ pc' = "recover"
             /\ idx' = idx
    /\ UNCHANGED <<entry, path, field, cc, response, wire, result, afterLog, invoked,
                   log, escaped, call, served>>
    /\ UNCHANGED aside

\* The handler action ends with the outcome o of a renderer call on the
\* context c0: a returned error is raised as a fault; the context the action changed is cc itself only
\* when the controller embeds a *Controller.
Rendered(fn, c0, r0, arg, found, execOK, o) ==
    /\ call' = Called(fn, c0, r0, arg, found, execOK, o)
    /\ cc' = IF field = "pointer" THEN o.c ELSE cc
    /\ response' = o.r
    /\ IF ~Faults(o)
       THEN /\ result' = Content(o.out)
            /\ NoRaise
       ELSE /\ result' = result
            /\ Raise("invoke", o.err)

\* method.Call(args): the handler action, after the last Before hook.  The
\* action of the 404 ErrorController is Get, which renders the error of its code.
Invoke ==
    /\ pc = "before"
    /\ idx > NumMiddlewares
    /\ invoked' = invoked + 1
    /\ pc' = "recover"
    /\ IF dispatch(path) = "none"
       THEN \E found \in BOOLEAN, execOK \in BOOLEAN :
                Rendered("RenderError", cc, response, StatusNotFound, found, execOK,
                         RenderError(cc, response, StatusNotFound, found, execOK))
       ELSE \E ct \in ContentTypes, act \in HandlerActs :
            LET r0 == IF ct = "" THEN response ELSE [response EXCEPT !.ContentType = ct]
                c0 == [cc EXCEPT !.Data = Args(path)]
            IN  CASE act = "render" ->
                    \E found \in BOOLEAN, execOK \in BOOLEAN :
                        Rendered("Render", c0, r0, 0, found, execOK,
                                 Render(c0, r0, found, execOK))
                  [] act = "json" ->
                    \E marshalOK \in BOOLEAN :
                        Rendered("RenderJSON", c0, r0, 0, FALSE, marshalOK,
                                 RenderJSON(c0, r0, marshalOK))
                  [] act = "xml" ->
                    \E marshalOK \in BOOLEAN :
                        Rendered("RenderXML", c0, r0, 0, FALSE, marshalOK,
                                 RenderXML(c0, r0, marshalOK))
                  [] act = "sendfile" ->
                    \E f \in FileCases :
                        Rendered("SendFile", cc, r0, f, f.found, f.execOK,
                                 SendFile(cc, r0, f))
                  [] act = "notfound" ->
                    \E found \in BOOLEAN, execOK \in BOOLEAN :
                        Rendered("RenderError", cc, r0, StatusNotFound, found, execOK,
                                 RenderError(cc, r0, StatusNotFound, found, execOK))
                  [] act = "text" ->
                    Rendered("RenderText", cc, r0, 0, FALSE, FALSE,
                             RenderText(cc, r0, "text"))
                  [] act = "nil" ->
                    /\ result' = NilResult
                    /\ response' = r0
                    /\ NoRaise
                    /\ UNCHANGED <<cc, call>>
                  [] act = "panic" ->
                    /\ response' = r0
                    /\ Raise("invoke", "panic")
                    /\ UNCHANGED <<cc, call, result>>
    /\ UNCHANGED <<entry, path, field, wire, idx, beforeLog, afterLog, log, escaped, served>>
    /\ UNCHANGED aside

\* Faulty variant: the recovery builds the ErrorController of 404 instead of 500.
RecoverAnswersNotFound ==
    /\ pc = "recover"
    /\ IF fault = NoPanic
       THEN /\ pc' = "after"
            /\ idx' = 1
            /\ UNCHANGED <<cc, response, result, log, fault, first, call>>
       ELSE /\ log' = Append(log, fault)
            /\ \E found \in BOOLEAN, execOK \in BOOLEAN :
                LET c0 == IF cc.isNil
                          THEN [ZeroController EXCEPT !.hasRequest = TRUE,
                                                      !.hasResponse = TRUE]
                          ELSE cc
                    o == RenderError(c0, response, StatusNotFound, found, execOK)
                IN  /\ call' = Called("RenderError", c0, response,
                                      StatusNotFound, found, execOK, o)
                    /\ cc' = o.c
                    /\ response' = o.r
                    /\ IF ~Faults(o)
                       THEN /\ result' = Content(o.out)
                            /\ fault' = NoPanic
                            /\ first' = first
                            /\ pc' = "after"
                            /\ idx' = 1
                       ELSE /\ result' = result
                            /\ Raise("get", o.err)
                            /\ pc' = "inner"
                            /\ idx' = idx
    /\ UNCHANGED <<entry, path, field, wire, beforeLog, afterLog, invoked, escaped, served>>
    /\ UNCHANGED aside

\* The deferred function of render up to the After loop: without a panic it
\* goes on to the loop; with one it logs it, gives the 500 ErrorController the
\* context (a fresh one with Request and Response when there is none) and calls
\* its Get.  A Get that returns an error or panics is a second fault.
Recover ==
    /\ pc = "recover"
    /\ IF fault = NoPanic
       THEN /\ pc' = "after"
            /\ idx' = 1
            /\ UNCHANGED <<cc, response, result, log, fault, first, call>>
       ELSE /\ log' = Append(log, fault)
            /\ \E found \in BOOLEAN, execOK \in BOOLEAN :
                LET c0 == IF cc.isNil
                          THEN [ZeroController EXCEPT !.hasRequest = TRUE,
                                                      !.hasResponse = TRUE]
                          ELSE cc
                    o == RenderError(c0, response, StatusInternalServerError, found, execOK)
                IN  /\ call' = Called("RenderError", c0, response,
                                      StatusInternalServerError, found, execOK, o)
                    /\ cc' = o.c
                    /\ response' = o.r
                    /\ IF ~Faults(o)
                       THEN /\ result' = Content(o.out)
                            /\ fault' = NoPanic
                            /\ first' = first
                            /\ pc' = "after"
                            /\ idx' = 1
                       ELSE /\ result' = result
                            /\ Raise("get", o.err)
                            /\ pc' = "inner"
                            /\ idx' = idx
    /\ UNCHANGED <<entry, path, field, wire, beforeLog, afterLog, invoked, escaped, served>>
    /\ UNCHANGED aside

\* Faulty variant: a panic of an After hook is swallowed and the loop goes on.
AfterContinuesOnPanic ==
    /\ pc = "after"
    /\ idx \in Middlewares
    /\ afterLog' = Append(afterLog, idx)
    /\ \E ok \in BOOLEAN :
        IF ok
        THEN /\ idx' = idx + 1
             /\ pc' = "after"
             /\ NoRaise
             /\ log' = log
        ELSE /\ log' = Append(log, Panic("after", "panic"))
             /\ first' = IF first = NoPanic THEN Panic("after", "panic") ELSE first
             /\ fault' = fault
             /\ pc' = "after"
             /\ idx' = idx + 1
    /\ UNCHANGED <<entry, path, field, cc, response, wire, result, beforeLog, invoked,
                   escaped, call, served>>
    /\ UNCHANGED aside

\* m.After(app, cc) of the next middleware: it returns or panics.
After ==
    /\ pc = "after"
    /\ idx \in Middlewares
    /\ afterLog' = Append(afterLog, idx)
    /\ \E ok \in BOOLEAN :
        IF ok
        THEN /\ idx' = idx + 1
             /\ pc' = "after"
             /\ NoRaise
        ELSE /\ Raise("after", "panic")
             /\ pc' = "inner"
             /\ idx' = idx
    /\ UNCHANGED <<entry, path, field, cc, response, wire, result, beforeLog, invoked,
                   log, escaped, call, served>>
    /\ UNCHANGED aside

\* Faulty variant: the status is written without waiting for the After hooks.
WriteStatusBeforeAfterHooks ==
    /\ pc = "after"
    /\ wire' = WriteHeader(wire, response.StatusCode)
    /\ pc' = "proc"
    /\ UNCHANGED <<entry, path, field, cc, response, result, idx, beforeLog, afterLog,
                   invoked, log, fault, first, escaped, call, served>>
    /\ UNCHANGED aside

\* response.WriteHeader(response.StatusCode), after the last After hook.
WriteStatus ==
    /\ pc = "after"
    /\ idx > NumMiddlewares
    /\ wire' = WriteHeader(wire, response.StatusCode)
    /\ pc' = "proc"
    /\ UNCHANGED <<entry, path, field, cc, response, result, idx, beforeLog, afterLog,
                   invoked, log, fault, first, escaped, call, served>>
    /\ UNCHANGED aside

\* Faulty variant: Proc writes no byte of the Result.
ProcDropsBody ==
    /\ pc = "proc"
    /\ \E ok \in BOOLEAN :
        IF ok /\ result.kind # "nil"
        THEN /\ wire' = Write(wire, "")
             /\ pc' = "done"
             /\ NoRaise
        ELSE /\ Raise("proc", "panic")
             /\ pc' = "inner"
             /\ wire' = wire
    /\ UNCHANGED <<entry, path, field, cc, response, result, idx, beforeLog, afterLog,
                   invoked, log, escaped, call, served>>
    /\ UNCHANGED aside

\* result[0].Interface().(Result).Proc(response): the assertion panics on a nil
\* Result; Proc writes the rendered bytes or panics.
Proc ==
    /\ pc = "proc"
    /\ \E ok \in BOOLEAN :
        IF ok /\ result.kind # "nil"
        THEN /\ wire' = Write(wire, result.body)
             /\ pc' = "done"
             /\ NoRaise
        ELSE /\ Raise("proc", "panic")
             /\ pc' = "inner"
             /\ wire' = wire
    /\ UNCHANGED <<entry, path, field, cc, response, result, idx, beforeLog, afterLog,
                   invoked, log, escaped, call, served>>
    /\ UNCHANGED aside

\* Faulty variant: the innermost recovery answers with the status code it finds.
InnerRecoverKeepsStatusCode ==
    /\ pc = "inner"
    /\ log' = Append(log, fault)
    /\ response' = response
    /\ wire' = HttpError(wire, StatusText(response.StatusCode), response.StatusCode)
    /\ fault' = NoPanic
    /\ pc' = "done"
    /\ UNCHANGED <<entry, path, field, cc, result, idx, beforeLog, afterLog, invoked,
                   first, escaped, call, served>>
    /\ UNCHANGED aside

\* The innermost deferred function: it recovers a panic of the deferred
\* function, logs it and answers the plain 500.
InnerRecover ==
    /\ pc = "inner"
    /\ log' = Append(log, fault)
    /\ response' = [response EXCEPT !.StatusCode = StatusInternalServerError]
    /\ wire' = HttpError(wire, StatusText(StatusInternalServerError),
                         StatusInternalServerError)
    /\ fault' = NoPanic
    /\ pc' = "done"
    /\ UNCHANGED <<entry, path, field, cc, result, idx, beforeLog, afterLog, invoked,
                   first, escaped, call, served>>
    /\ UNCHANGED aside

\* The entry point has returned: the transport takes the next request.
Finish ==
    /\ pc = "done"
    /\ pc' = "idle"
    /\ served' = IF dispatch(path) = "none"
                 THEN Append(served, [entry |-> entry, status |-> wire.status])
                 ELSE served
    /\ entry' = "none"
    /\ path' = ""
    /\ field' = "none"
    /\ cc' = NilController
    /\ response' = NewResponse
    /\ wire' = NewWire
    /\ result' = NoResult
    /\ idx' = 0
    /\ beforeLog' = <<>>
    /\ afterLog' = <<>>
    /\ invoked' = 0
    /\ log' = <<>>
    /\ fault' = NoPanic
    /\ first' = NoPanic
    /\ escaped' = FALSE
    /\ call' = NoCall
    /\ UNCHANGED aside

---------------------------------------------------------------------------
(* handler (server.go) *)

\* NewResponse of the handler: a response starts as text/html.
NewHandlerResponse == [StatusCode |-> StatusOK, ContentType |-> "text/html"]

\* What an action run by handler may do: render its template with
\* Controller.Render, return a text Result or a nil Result, or panic.
ControllerActs == {"render", "text", "nil", "panic"}

\* Faulty variant: handler does not test for a missing controller.
HandlerDispatchNoNilCheck ==
    /\ pc = "idle"
    /\ \E p \in Paths :
        /\ Accepts(p)
        /\ path' = p
        /\ IF dispatch(p) = "none"
           THEN /\ Raise("invoke", "nil controller")
                /\ cc' = cc
                /\ pc' = "recovered"
           ELSE /\ NoRaise
                /\ cc' = [ZeroController EXCEPT !.Name = ControllerName(p),
                                                !.hasRequest = TRUE,
                                                !.hasResponse = TRUE]
                /\ pc' = "call"
    /\ wire' = NewWire
    /\ entry' = "handler"
    /\ field' = "value"
    /\ response' = NewHandlerResponse
    /\ UNCHANGED <<result, idx, beforeLog, afterLog, invoked, log, escaped, call, served>>
    /\ UNCHANGED aside

\* handler up to the controller's fields: a path with no route is answered by
\* http.NotFound and handler returns; otherwise Name, Request and Response of
\* the controller are set.
HandlerDispatch ==
    /\ pc = "idle"
    /\ \E p \in Paths :
        /\ Accepts(p)
        /\ path' = p
        /\ IF dispatch(p) = "none"
           THEN /\ wire' = HttpError(NewWire, "404 page not found", StatusNotFound)
                /\ cc' = cc
                /\ pc' = "done"
           ELSE /\ wire' = NewWire
                /\ cc' = [ZeroController EXCEPT !.Name = ControllerName(p),
                                                !.hasRequest = TRUE,
                                                !.hasResponse = TRUE]
                /\ pc' = "call"
    /\ entry' = "handler"
    /\ field' = "value"
    /\ response' = NewHandlerResponse
    /\ UNCHANGED <<result, idx, beforeLog, afterLog, invoked, log, fault, first,
                   escaped, call, served>>
    /\ UNCHANGED aside

\* method.Call(args) in handler.
HandlerCall ==
    /\ pc = "call"
    /\ invoked' = invoked + 1
    /\ \E ct \in ContentTypes, act \in ControllerActs :
        LET r0 == IF ct = "" THEN response ELSE [response EXCEPT !.ContentType = ct]
        IN  /\ response' = r0
            /\ CASE act = "render" ->
                    \E nctx \in 0..2, found \in BOOLEAN :
                        LET c0 == IF nctx = 1 THEN [cc EXCEPT !.Data = Args(path)] ELSE cc
                            o == ControllerRender(c0, r0, nctx, found)
                        IN  /\ call' = Called("Controller.Render", c0, r0, nctx, found,
                                              TRUE, o)
                            /\ IF o.ret = "ok"
                               THEN /\ result' = Content(o.out)
                                    /\ NoRaise
                                    /\ pc' = "write"
                               ELSE /\ result' = result
                                    /\ Raise("invoke", o.err)
                                    /\ pc' = "recovered"
                  [] act = "text" ->
                    /\ result' = Content("text")
                    /\ NoRaise
                    /\ pc' = "write"
                    /\ call' = call
                  [] act = "nil" ->
                    /\ result' = NilResult
                    /\ NoRaise
                    /\ pc' = "write"
                    /\ call' = call
                  [] act = "panic" ->
                    /\ Raise("invoke", "panic")
                    /\ pc' = "recovered"
                    /\ UNCHANGED <<result, call>>
    /\ UNCHANGED <<entry, path, field, cc, wire, idx, beforeLog, afterLog, log, escaped,
                   served>>
    /\ UNCHANGED aside

\* result[0].Interface().(Result).Proc(writer) in handler.
HandlerProc ==
    /\ pc = "write"
    /\ \E ok \in BOOLEAN :
        IF ok /\ result.kind # "nil"
        THEN /\ wire' = Write(wire, result.body)
             /\ pc' = "done"
             /\ NoRaise
        ELSE /\ Raise("proc", "panic")
             /\ pc' = "recovered"
             /\ wire' = wire
    /\ UNCHANGED <<entry, path, field, cc, response, result, idx, beforeLog, afterLog,
                   invoked, log, escaped, call, served>>
    /\ UNCHANGED aside

\* Faulty variant: handler has no deferred recover, the panic leaves it.
HandlerDoesNotRecover ==
    /\ pc = "recovered"
    /\ escaped' = TRUE
    /\ pc' = "done"
    /\ UNCHANGED <<entry, path, field, cc, response, wire, result, idx, beforeLog,
                   afterLog, invoked, log, fault, first, call, served>>
    /\ UNCHANGED aside

\* The deferred function of handler: it logs the error, then the stack, and
\* answers 500.
HandlerRecover ==
    /\ pc = "recovered"
    /\ log' = log \o <<fault, Panic("stack", "")>>
    /\ wire' = HttpError(wire, "500 Internal Server Error", StatusInternalServerError)
    /\ fault' = NoPanic
    /\ pc' = "done"
    /\ UNCHANGED <<entry, path, field, cc, response, result, idx, beforeLog, afterLog,
                   invoked, first, escaped, call, served>>
    /\ UNCHANGED aside

---------------------------------------------------------------------------
(* New and Run (kocha.go) *)

DefaultHttpAddr == "127.0.0.1:9100"

\* The configurations Run is given: the address, the body limit, the position
\* of the first SessionMiddleware in Config.Middlewares (0: none), whether
\* Config.Session and its Store are set, what Config.Session.Validate returns,
\* and whether the template set and the route table build.
Configs ==
    [Addr : {"", "0.0.0.0:80"}, MaxClientBodySize : {0, 1},
     sessionMiddleware : 0..NumMiddlewares, Session : {"nil", "set"},
     Store : {"nil", "set"}, Validate : {"nil", "invalid session"},
     TemplateSet : {"ok", "bad"}, RouteTable : {"ok", "bad"}]

\* Faulty variant: a Config that passes the tests of the SessionMiddleware is
\* validated too.
validateSessionConfigAlwaysValidates(config) ==
    IF config.sessionMiddleware # 0
    THEN IF config.Session = "nil" THEN "Session is nil"
         ELSE IF config.Store = "nil" THEN "Session.Store is nil"
         ELSE config.Validate
    ELSE config.Validate

\* Application.validateSessionConfig: with a SessionMiddleware it tests that
\* Config.Session and its Store are set, and returns; without one it returns
\* what Config.Session.Validate returns.
validateSessionConfig(config) ==
    IF config.sessionMiddleware # 0
    THEN IF config.Session = "nil" THEN "Session is nil"
         ELSE IF config.Store = "nil" THEN "Session.Store is nil"
         ELSE "nil"
    ELSE config.Validate

\* Whether validateSessionConfig reaches the call of Config.Session.Validate:
\* the loop returns at the first SessionMiddleware.
ValidateCalled(config) == config.sessionMiddleware = 0

buildResourceSet(config) == "nil"

buildTemplate(config) ==
    IF config.TemplateSet = "bad" THEN "template build error" ELSE "nil"

buildRouter(config) ==
    IF config.RouteTable = "bad" THEN "route table build error" ELSE "nil"

\* The defaults New writes into the Config it is given.
WithDefaults(config) ==
    [config EXCEPT !.Addr = IF @ = "" THEN DefaultHttpAddr ELSE @,
                   !.MaxClientBodySize = IF @ < 1 THEN DefaultMaxClientBodySize ELSE @]

\* What New hands back: the Config as New left it, whether the Application is
\* nil, and the error ("nil": none).
Built(config, err) == [config |-> config, nilApp |-> err # "nil", err |-> err]

\* Faulty variant: New leaves the error of the route table to the first request.
NewDefersRouterError(config) ==
    LET c == WithDefaults(config)
    IN  IF validateSessionConfig(c) # "nil" THEN Built(c, validateSessionConfig(c))
        ELSE IF buildResourceSet(c) # "nil" THEN Built(c, buildResourceSet(c))
        ELSE IF buildTemplate(c) # "nil" THEN Built(c, buildTemplate(c))
        ELSE Built(c, "nil")

\* New(config).
New(config) ==
    LET c == WithDefaults(config)
    IN  IF validateSessionConfig(c) # "nil" THEN Built(c, validateSessionConfig(c))
        ELSE IF buildResourceSet(c) # "nil" THEN Built(c, buildResourceSet(c))
        ELSE IF buildTemplate(c) # "nil" THEN Built(c, buildTemplate(c))
        ELSE IF buildRouter(c) # "nil" THEN Built(c, buildRouter(c))
        ELSE Built(c, "nil")

\* Run is called with a Config.
Starting(config) ==
    [pc |-> "run", given |-> config, config |-> config, nilApp |-> TRUE,
     err |-> "unset", validated |-> FALSE, listening |-> FALSE, addr |-> "",
     ret |-> "unset"]

\* Run has built the Application of a Config and is listening.
Started(config) ==
    [Starting(config) EXCEPT !.pc = "listening", !.config = New(config).config,
                             !.nilApp = FALSE, !.err = "nil",
                             !.validated = ValidateCalled(config), !.listening = TRUE,
                             !.addr = New(config).config.Addr]

\* A Config without session middleware whose parts all build.
PlainConfig ==
    [Addr |-> "", MaxClientBodySize |-> 0, sessionMiddleware |-> 0, Session |-> "nil",
     Store |-> "nil", Validate |-> "nil", TemplateSet |-> "ok", RouteTable |-> "ok"]

\* Run: app, err := New(config).
RunNew ==
    /\ startup.pc = "run"
    /\ LET built == New(startup.config)
       IN  startup' = [startup EXCEPT !.pc = "new", !.config = built.config,
                                      !.nilApp = built.nilApp, !.err = built.err,
                                      !.validated = ValidateCalled(built.config)]
    /\ UNCHANGED <<request, normed, shared, copying, threading>>

\* Run: the error of New is returned.
RunReturn ==
    /\ startup.pc = "new"
    /\ startup.err # "nil"
    /\ startup' = [startup EXCEPT !.pc = "returned", !.ret = startup.err]
    /\ UNCHANGED <<request, normed, shared, copying, threading>>

\* Run: server.ListenAndServe() on config.Addr; it listens, or returns its error.
RunListen ==
    /\ startup.pc = "new"
    /\ startup.err = "nil"
    /\ \E ok \in BOOLEAN :
        startup' = IF ok
                   THEN [startup EXCEPT !.pc = "listening", !.listening = TRUE,
                                        !.addr = startup.config.Addr]
                   ELSE [startup EXCEPT !.pc = "returned", !.ret = "listen error"]
    /\ UNCHANGED <<request, normed, shared, copying, threading>>

---------------------------------------------------------------------------
(* normPath (util.go) *)

\* A path is the sequence of its characters.
PathChars == {"/", ".", "a"}
MaxPathLen == 5
PathStrings == UNION {[1..n -> PathChars] : n \in 0..MaxPathLen}

RECURSIVE Backtrack(_, _, _)
\* path.Clean backing up over the last element of out: w steps down to dotdot
\* or to the slash before the element.
Backtrack(out, w, dotdot) ==
    IF w > dotdot /\ out[w + 1] # "/" THEN Backtrack(out, w - 1, dotdot)
    ELSE SubSeq(out, 1, w)

\* The index after the path element that starts after index r.
RECURSIVE ElementEnd(_, _)
ElementEnd(p, r) ==
    IF r < Len(p) /\ p[r + 1] # "/" THEN ElementEnd(p, r + 1) ELSE r

RECURSIVE CleanLoop(_, _, _, _)
\* The loop of path.Clean: r characters of p are read, out is the buffer,
\* dotdot the length of the part of out that ".." cannot back up over.
CleanLoop(p, r, out, dotdot) ==
    LET n == Len(p)
        rooted == p[1] = "/"
    IN  IF r >= n THEN out
        ELSE IF p[r + 1] = "/" THEN CleanLoop(p, r + 1, out, dotdot)
        ELSE IF p[r + 1] = "." /\ (r + 1 = n \/ p[r + 2] = "/")
             THEN CleanLoop(p, r + 1, out, dotdot)
        ELSE IF p[r + 1] = "." /\ p[r + 2] = "." /\ (r + 2 = n \/ p[r + 3] = "/")
             THEN IF Len(out) > dotdot
                  THEN CleanLoop(p, r + 2, Backtrack(out, Len(out) - 1, dotdot), dotdot)
                  ELSE IF ~rooted
                       THEN LET o == (IF Len(out) > 0 THEN out \o <<"/">> ELSE out)
                                         \o <<".", ".">>
                            IN  CleanLoop(p, r + 2, o, Len(o))
                       ELSE CleanLoop(p, r + 2, out, dotdot)
        ELSE LET o == IF (rooted /\ Len(out) # 1) \/ (~rooted /\ Len(out) # 0)
                      THEN out \o <<"/">> ELSE out
                 e == ElementEnd(p, r)
             IN  CleanLoop(p, e, o \o SubSeq(p, r + 1, e), dotdot)

\* path.Clean.
Clean(p) ==
    IF p = <<>> THEN <<".">>
    ELSE LET out == IF p[1] = "/" THEN CleanLoop(p, 1, <<"/">>, 1)
                    ELSE CleanLoop(p, 0, <<>>, 0)
         IN  IF out = <<>> THEN <<".">> ELSE out

\* Faulty variant: the slash is put back on the root too.
normPathAlwaysAppends(p) ==
    LET cleaned == Clean(p)
    IN  IF p[Len(p)] = "/" THEN cleaned \o <<"/">> ELSE cleaned

\* normPath(p), for a path that is not empty.
normPath(p) ==
    LET cleaned == Clean(p)
    IN  IF p[Len(p)] = "/" /\ cleaned # <<"/">> THEN cleaned \o <<"/">> ELSE cleaned

\* normPath is to be called with the path p.
Given(p) == [p |-> p, done |-> FALSE, panicked |-> FALSE, result |-> <<>>]

\* The call of normPath: the index p[len(p)-1] panics on the empty path.
NormPath ==
    /\ ~normed.done
    /\ normed' = IF normed.p = <<>>
                 THEN [normed EXCEPT !.done = TRUE, !.panicked = TRUE]
                 ELSE [normed EXCEPT !.done = TRUE, !.result = normPath(normed.p)]
    /\ UNCHANGED <<request, startup, shared, copying, threading>>

---------------------------------------------------------------------------
(* Concurrent dispatches of one Application (kocha.go) *)

NumDispatches == 2
Dispatches == 1..NumDispatches

\* A location is an object and who allocated it: 0 for what New built and the
\* package holds, a dispatch for what it allocated itself.
AppObjects == {"Config", "Router", "Template", "ResourceSet", "MimeTypeFormats"}
DispatchObjects == {"controller", "Request", "Response", "Controller", "Result"}
Locs == (0..NumDispatches) \X (AppObjects \cup DispatchObjects)

App(object) == <<0, object>>
Own(d, object) == <<d, object>>

\* Faulty variant: the context of a dispatch is the Controller of the route.
ContextOfRoute(d) == <<0, "Controller">>

\* cc of render: the copy `cc = &c` or the fresh `cc = &Controller{}`.
ContextOf(d) == Own(d, "Controller")

NoDispatch == [pc |-> "idle", path |-> "", field |-> "none", seen |-> ""]

\* The dispatch d reads the locations rd and writes the locations wr.
Touch(d, rd, wr) ==
    /\ readers' = [l \in Locs |-> IF l \in rd THEN readers[l] \cup {d} ELSE readers[l]]
    /\ writers' = [l \in Locs |-> IF l \in wr THEN writers[l] \cup {d} ELSE writers[l]]

At(d, from, to) ==
    /\ dispatches[d].pc = from
    /\ dispatches' = [dispatches EXCEPT ![d].pc = to]

\* ServeHTTP: Router.dispatch hands back a controller of the route, or
\* NewErrorController builds the one of 404.
ConcurrentServeHTTP ==
    /\ \E d \in Dispatches, p \in {"/", "/user/7", "/missing"}, fk \in {"value", "pointer"} :
        /\ dispatches[d].pc = "idle"
        /\ dispatches' = [dispatches EXCEPT ![d] =
                [pc |-> "enter", path |-> p, seen |-> "",
                 field |-> IF dispatch(p) = "none" THEN "pointer" ELSE fk]]
        /\ Touch(d, {App("Router")}, {Own(d, "controller")})
    /\ UNCHANGED <<request, startup, normed, mem, copying, threading>>

\* render to the switch: newRequest, newResponse, MaxBytesReader, and cc from
\* the Controller field of the controller.
ConcurrentEnter ==
    /\ \E d \in Dispatches :
        /\ At(d, "enter", "construct")
        /\ Touch(d, {App("Config"), Own(d, "controller")},
                 {Own(d, "Request"), Own(d, "Response"), ContextOf(d)}
                    \cup (IF dispatches[d].field = "pointer"
                          THEN {Own(d, "controller")} ELSE {}))
    /\ UNCHANGED <<request, startup, normed, mem, copying, threading>>

\* ParseMultipartForm and the fields of cc.
ConcurrentConstruct ==
    /\ \E d \in Dispatches :
        /\ At(d, "construct", "before")
        /\ Touch(d, {App("Config"), Own(d, "Request")}, {Own(d, "Request"), ContextOf(d)})
        /\ mem' = [mem EXCEPT ![ContextOf(d)] = ControllerName(dispatches[d].path)]
    /\ UNCHANGED <<request, startup, normed, copying, threading>>

\* The Before hooks, which are handed cc.
ConcurrentBefore ==
    /\ \E d \in Dispatches :
        /\ At(d, "before", "invoke")
        /\ Touch(d, {App("Config"), ContextOf(d)}, {ContextOf(d)})
    /\ UNCHANGED <<request, startup, normed, mem, copying, threading>>

\* ccValue.Set and method.Call: the handler action renders with its context.
ConcurrentInvoke ==
    /\ \E d \in Dispatches :
        /\ At(d, "invoke", "after")
        /\ Touch(d, {ContextOf(d), Own(d, "Response"), App("MimeTypeFormats"),
                     App("Template"), App("Config"), App("ResourceSet")},
                 {Own(d, "controller"), ContextOf(d), Own(d, "Response"),
                  Own(d, "Result")})
    /\ UNCHANGED <<request, startup, normed, mem, copying, threading>>

\* The After hooks, which are handed cc and see the Name it holds.
ConcurrentAfter ==
    /\ \E d \in Dispatches :
        /\ dispatches[d].pc = "after"
        /\ dispatches' = [dispatches EXCEPT ![d].pc = "write",
                                            ![d].seen = mem[ContextOf(d)]]
        /\ Touch(d, {App("Config"), ContextOf(d)}, {ContextOf(d)})
    /\ UNCHANGED <<request, startup, normed, mem, copying, threading>>

\* response.WriteHeader and Proc.
ConcurrentWrite ==
    /\ \E d \in Dispatches :
        /\ At(d, "write", "done")
        /\ Touch(d, {Own(d, "Response"), Own(d, "Result")}, {Own(d, "Response")})
    /\ UNCHANGED <<request, startup, normed, mem, copying, threading>>

---------------------------------------------------------------------------
(* CopyTemplate (util.go) *)

\* How often confirmOverwrite may be given an answer it does not know.
MaxAsks == 2

fileStatusConflict == 0
fileStatusNoConflict == 1
fileStatusIdentical == 2

\* A template file: its text and whether it ends with an action that prints
\* the name found in the data.  The data of a call holds that name.
TemplateFiles == [text : {"", "package "}, action : BOOLEAN]
Datas == {"", "Root"}

\* tmpl.Execute(&bufFrom, data).
ExecuteFile(t, data) == t.text \o (IF t.action THEN data ELSE "")

\* A file of the file system: whether it exists, whether it can be read, and
\* its content.
NoFile == [exists |-> FALSE, readable |-> FALSE, content |-> ""]
File(content, readable) == [exists |-> TRUE, readable |-> readable, content |-> content]
DstFiles ==
    {NoFile} \cup {File(content, readable) :
                      content \in {"", "package Root", "package Old"},
                      readable \in BOOLEAN}

\* Faulty variant: a destination that exists and can be read is no conflict.
detectConflictIgnoresContent(src, dst) ==
    IF ~dst.exists THEN fileStatusNoConflict
    ELSE IF ~dst.readable THEN -1
    ELSE IF src = dst.content THEN fileStatusIdentical
    ELSE fileStatusNoConflict

\* detectConflict(u, src, dstPath): no conflict when os.Stat says the file does
\* not exist; -1 stands for the panic on a file that cannot be read.
detectConflict(src, dst) ==
    IF ~dst.exists THEN fileStatusNoConflict
    ELSE IF ~dst.readable THEN -1
    ELSE IF src = dst.content THEN fileStatusIdentical
    ELSE fileStatusConflict

\* The lines the user may type (without the line feed), and "EOF": the input ends.
Answers == {"", "y", "Y", "yes", " Yes ", "n", "N", "no", " NO", "x", "yn", "EOF"}

\* strings.ToUpper(strings.TrimSpace(yesno)).
ToUpperTrimSpace(yesno) ==
    CASE yesno \in {"y", "Y"} -> "Y"
      [] yesno \in {"yes", " Yes "} -> "YES"
      [] yesno \in {"n", "N"} -> "N"
      [] yesno \in {"no", " NO"} -> "NO"
      [] yesno = "x" -> "X"
      [] yesno = "yn" -> "YN"
      [] OTHER -> ""

\* The switch of confirmOverwrite on a line read: "again" is another turn of
\* the loop.
confirmOverwrite(yesno) ==
    CASE ToUpperTrimSpace(yesno) \in {"", "YES", "Y"} -> "true"
      [] ToUpperTrimSpace(yesno) \in {"NO", "N"} -> "false"
      [] OTHER -> "again"

\* CopyTemplate is called with a template file, its data and a destination.
Copying(t, data, dst) ==
    [pc |-> "start", template |-> t, data |-> data, original |-> dst, dst |-> dst,
     bufFrom |-> "", status |-> -1, answers |-> <<>>, printed |-> <<>>,
     creates |-> 0, err |-> ""]

\* No CopyTemplate is running.
NotCopying == [Copying([text |-> "", action |-> FALSE], "", NoFile) EXCEPT !.pc = "idle"]

\* PanicOnError, or a panic: CopyTemplate is left at once.
Abort(msg) == [copying EXCEPT !.pc = "panicked", !.err = msg]

\* template.ParseFiles(srcPath) and tmpl.Execute(&bufFrom, data).
CopyTemplateExecute ==
    /\ copying.pc = "start"
    /\ \E parseOK \in BOOLEAN, execOK \in BOOLEAN :
        copying' =
            IF ~parseOK THEN Abort("abort: failed to parse template")
            ELSE IF ~execOK THEN Abort("abort: failed to process template")
            ELSE [copying EXCEPT !.pc = "detect",
                                 !.bufFrom = ExecuteFile(copying.template, copying.data)]
    /\ UNCHANGED <<request, startup, normed, shared, threading>>

\* The switch on detectConflict(u, bufFrom.Bytes(), dstPath).
CopyTemplateDetect ==
    /\ copying.pc = "detect"
    /\ LET status == detectConflict(copying.bufFrom, copying.dst)
       IN  copying' =
            CASE status = -1 -> Abort("abort: failed to read file")
              [] status = fileStatusConflict ->
                    [copying EXCEPT !.pc = "confirm", !.status = status,
                                    !.printed = Append(@, "conflict")]
              [] status = fileStatusIdentical ->
                    [copying EXCEPT !.pc = "done", !.status = status,
                                    !.printed = Append(@, "identical")]
              [] OTHER -> [copying EXCEPT !.pc = "create", !.status = status]
    /\ UNCHANGED <<request, startup, normed, shared, threading>>

\* One turn of the loop of confirmOverwrite: a line is read from the standard
\* input; CopyTemplate skips the file on false.
CopyTemplateConfirm ==
    /\ copying.pc = "confirm"
    /\ \E yesno \in Answers :
        /\ confirmOverwrite(yesno) = "again" => Len(copying.answers) < MaxAsks
        /\ copying' =
            IF yesno = "EOF" THEN Abort("EOF")
            ELSE LET asked == [copying EXCEPT !.answers = Append(@, yesno)]
                 IN  CASE confirmOverwrite(yesno) = "true" ->
                            [asked EXCEPT !.pc = "create"]
                       [] confirmOverwrite(yesno) = "false" ->
                            [asked EXCEPT !.pc = "done", !.printed = Append(@, "skip")]
                       [] OTHER -> asked
    /\ UNCHANGED <<request, startup, normed, shared, threading>>

\* os.Create(dstPath): the file is created, or truncated when it exists.
CopyTemplateCreate ==
    /\ copying.pc = "create"
    /\ \E ok \in BOOLEAN :
        copying' =
            IF ok
            THEN [copying EXCEPT !.pc = "copy", !.dst = File("", TRUE),
                                 !.creates = @ + 1]
            ELSE Abort("abort: failed to create file")
    /\ UNCHANGED <<request, startup, normed, shared, threading>>

\* io.Copy(dstFile, &bufFrom) and printFunc(dstPath); a failed copy has
\* written nothing.
CopyTemplateCopy ==
    /\ copying.pc = "copy"
    /\ \E ok \in BOOLEAN :
        copying' =
            IF ok
            THEN [copying EXCEPT !.pc = "done", !.dst = File(copying.bufFrom, TRUE),
                                 !.printed = Append(@, IF copying.status = fileStatusConflict
                                                       THEN "overwrite" ELSE "create")]
            ELSE Abort("abort: failed to output file")
    /\ UNCHANGED <<request, startup, normed, shared, threading>>

---------------------------------------------------------------------------
(* The Controller of a request and the stages of render (kocha.go) *)

\* Config.DefaultLayout.
DefaultLayout == "app"

\* What a stage may do to the context it is given: nothing, assign a field of
\* the Controller struct (Layout), or put a key into its Context map.
Mutations == {"none", "field", "map"}

\* A Controller struct: Layout stands for its fields.  The Context map is
\* one object whichever struct refers to it.
ZeroStruct == [Layout |-> ""]

\* render is entered for a controller whose Controller field is a Controller
\* or a *Controller.  cc is the struct cc points at, embedded the struct in
\* the controller when the field is a Controller, keys the Context map; one
\* is the single context a reader of the stages expects, seen what each stage
\* found and what it would have found in that single context.
Threading(kind) ==
    [pc |-> "switch", field |-> kind, cc |-> ZeroStruct, embedded |-> ZeroStruct,
     keys |-> {}, one |-> [Layout |-> "", keys |-> {}], idx |-> 0, seen |-> <<>>]

NotThreading == [Threading("value") EXCEPT !.pc = "idle"]

\* The struct the handler action works on: the field of its controller, or
\* what that field points at.
ActionStruct(t) == IF t.field = "pointer" THEN t.cc ELSE t.embedded

\* A stage assigns Layout in the struct it holds.
Assign(struct, mutation, tag) ==
    IF mutation = "field" THEN [struct EXCEPT !.Layout = tag] ELSE struct

Put(keys, mutation, tag) == IF mutation = "map" THEN keys \cup {tag} ELSE keys

\* The same mutation in the single context.
InOne(one, mutation, tag) ==
    [Layout |-> IF mutation = "field" THEN tag ELSE one.Layout,
     keys |-> Put(one.keys, mutation, tag)]

Found(stage, struct, keys, one) ==
    [stage |-> stage, got |-> [Layout |-> struct.Layout, keys |-> keys], want |-> one]

\* The switch on the Controller field and the assignments to cc: cc points at
\* a copy of the field, or at a new struct the field is made to point at.
ContextSwitch ==
    /\ threading.pc = "switch"
    /\ threading' = [threading EXCEPT !.pc = "before", !.idx = 1,
                                      !.cc = [Layout |-> DefaultLayout],
                                      !.keys = {},
                                      !.one = [Layout |-> DefaultLayout, keys |-> {}]]
    /\ UNCHANGED <<request, startup, normed, shared, copying>>

\* m.Before(app, cc).
ContextBefore ==
    /\ threading.pc = "before"
    /\ threading.idx \in Middlewares
    /\ \E mutation \in Mutations :
        LET tag == "before" \o ToString(threading.idx)
        IN  threading' =
                [threading EXCEPT
                    !.seen = Append(@, Found(tag, threading.cc, threading.keys, threading.one)),
                    !.cc = Assign(@, mutation, tag),
                    !.keys = Put(@, mutation, tag),
                    !.one = InOne(@, mutation, tag),
                    !.idx = @ + 1]
    /\ UNCHANGED <<request, startup, normed, shared, copying>>

\* ccValue.Set(reflect.ValueOf(*cc)) and method.Call(args): the struct cc
\* points at is copied into the field of the controller (onto itself when the
\* field points at it), and the handler action works on that field.
ContextInvoke ==
    /\ threading.pc = "before"
    /\ threading.idx > NumMiddlewares
    /\ \E mutation \in Mutations :
        LET set == IF threading.field = "pointer" THEN threading
                   ELSE [threading EXCEPT !.embedded = threading.cc]
            struct == Assign(ActionStruct(set), mutation, "action")
        IN  threading' =
                [set EXCEPT
                    !.seen = Append(@, Found("action", ActionStruct(set), set.keys, set.one)),
                    !.cc = IF set.field = "pointer" THEN struct ELSE @,
                    !.embedded = IF set.field = "pointer" THEN @ ELSE struct,
                    !.keys = Put(@, mutation, "action"),
                    !.one = InOne(@, mutation, "action"),
                    !.pc = "after", !.idx = 1]
    /\ UNCHANGED <<request, startup, normed, shared, copying>>

\* m.After(app, cc).
ContextAfter ==
    /\ threading.pc = "after"
    /\ threading.idx \in Middlewares
    /\ \E mutation \in Mutations :
        LET tag == "after" \o ToString(threading.idx)
        IN  threading' =
                [threading EXCEPT
                    !.seen = Append(@, Found(tag, threading.cc, threading.keys, threading.one)),
                    !.cc = Assign(@, mutation, tag),
                    !.keys = Put(@, mutation, tag),
                    !.one = InOne(@, mutation, tag),
                    !.idx = @ + 1,
                    !.pc = IF threading.idx = NumMiddlewares THEN "done" ELSE "after"]
    /\ UNCHANGED <<request, startup, normed, shared, copying>>

---------------------------------------------------------------------------
(* Specifications *)

\* No concurrent dispatch has started.
NoDispatches ==
    /\ dispatches = [d \in Dispatches |-> NoDispatch]
    /\ mem = [l \in Locs |-> ""]
    /\ readers = [l \in Locs |-> {}]
    /\ writers = [l \in Locs |-> {}]

\* Serving requests: the application is listening.
Init ==
    /\ Idle
    /\ startup = Started(PlainConfig)
    /\ normed = [Given(<<"/">>) EXCEPT !.done = TRUE, !.result = <<"/">>]
    /\ NoDispatches
    /\ copying = NotCopying
    /\ threading = NotThreading

Next ==
    \/ ServeHTTP
    \/ ParseForm
    \/ Before
    \/ Invoke
    \/ Recover
    \/ After
    \/ WriteStatus
    \/ Proc
    \/ InnerRecover
    \/ Finish
    \/ HandlerDispatch
    \/ HandlerCall
    \/ HandlerProc
    \/ HandlerRecover

Spec == Init /\ [][Next]_vars

\* Starting up: Run is called with a Config.
InitRun ==
    /\ Idle
    /\ startup \in {Starting(config) : config \in Configs}
    /\ normed = [Given(<<"/">>) EXCEPT !.done = TRUE, !.result = <<"/">>]
    /\ NoDispatches
    /\ copying = NotCopying
    /\ threading = NotThreading

NextRun ==
    \/ RunNew
    \/ RunReturn
    \/ RunListen

SpecRun == InitRun /\ [][NextRun]_vars

\* normPath applied to a path.
InitNormPath ==
    /\ Idle
    /\ startup = Started(PlainConfig)
    /\ normed \in {Given(p) : p \in PathStrings}
    /\ NoDispatches
    /\ copying = NotCopying
    /\ threading = NotThreading

NextNormPath == NormPath

SpecNormPath == InitNormPath /\ [][NextNormPath]_vars

\* Dispatches of one listening Application running concurrently.
NextConcurrent ==
    \/ ConcurrentServeHTTP
    \/ ConcurrentEnter
    \/ ConcurrentConstruct
    \/ ConcurrentBefore
    \/ ConcurrentInvoke
    \/ ConcurrentAfter
    \/ ConcurrentWrite

SpecConcurrent == Init /\ [][NextConcurrent]_vars

\* CopyTemplate called by a generator.
InitCopyTemplate ==
    /\ Idle
    /\ startup = Started(PlainConfig)
    /\ normed = [Given(<<"/">>) EXCEPT !.done = TRUE, !.result = <<"/">>]
    /\ NoDispatches
    /\ copying \in {Copying(t, data, dst) :
                        t \in TemplateFiles, data \in Datas, dst \in DstFiles}
    /\ threading = NotThreading

NextCopyTemplate ==
    \/ CopyTemplateExecute
    \/ CopyTemplateDetect
    \/ CopyTemplateConfirm
    \/ CopyTemplateCreate
    \/ CopyTemplateCopy

SpecCopyTemplate == InitCopyTemplate /\ [][NextCopyTemplate]_vars

\* One request through render, for a controller of either kind.
InitContext ==
    /\ Idle
    /\ startup = Started(PlainConfig)
    /\ normed = [Given(<<"/">>) EXCEPT !.done = TRUE, !.result = <<"/">>]
    /\ NoDispatches
    /\ copying = NotCopying
    /\ threading \in {Threading(kind) : kind \in {"value", "pointer"}}

NextContext ==
    \/ ContextSwitch
    \/ ContextBefore
    \/ ContextInvoke
    \/ ContextAfter

SpecContext == InitContext /\ [][NextContext]_vars

---------------------------------------------------------------------------
(* Claims *)

Done == pc = "done"
ViaApp == entry = "app"
ViaHandler == entry = "handler"
NoMatch == dispatch(path) = "none"

\* The middlewares in registration order.
Registration == [i \in Middlewares |-> i]

\* The number of entries of the log that record the panic p.
Logged(p) == Cardinality({i \in DOMAIN log : log[i] = p})

\* The line http.Error writes for a message.
Line(msg) == msg \o "\n"

\* C1: in a request dispatched by Application.render whose handler action was
\* called, returning or panicking, every After hook has run exactly once when
\* render returns, in the registration order the Before hooks ran in.
C1_AfterOnceInBeforeOrder ==
    (Done /\ ViaApp /\ invoked = 1) =>
        (beforeLog = Registration /\ afterLog = Registration)

\* C2: a panic raised inside the handler action ends in one response of status
\* 500; it does not leave the entry point (render, handler), and it is logged
\* exactly once.
C2_HandlerPanicOne500 ==
    (Done /\ first.at = "invoke") =>
        /\ wire.status = StatusInternalServerError
        /\ wire.body # ""
        /\ ~escaped
        /\ Logged(first) = 1

C2_Witness ==
    /\ Done
    /\ ViaApp
    /\ first = Panic("invoke", "panic")
    /\ log = <<first>>
    /\ wire.status = StatusInternalServerError

\* C3 as stated: while ServeHTTP answers a path with no route, no Before and
\* no After hook is called.
C3_NoHookOnNoMatch ==
    (ViaApp /\ NoMatch) => (beforeLog = <<>> /\ afterLog = <<>>)

\* C3 amended: a path with no route is dispatched through render with the 404
\* ErrorController like any controller: every Before hook has run, in
\* registration order, when its action is called, and when nothing panics
\* every After hook has run too and the status is 404.
C3_NoMatchRunsHooks ==
    /\ (ViaApp /\ NoMatch /\ invoked = 1) => beforeLog = Registration
    /\ (ViaApp /\ NoMatch /\ Done /\ first = NoPanic) =>
            /\ afterLog = Registration
            /\ invoked = 1
            /\ wire.status = StatusNotFound

C3_Witness ==
    /\ Done
    /\ ViaApp
    /\ NoMatch
    /\ first = NoPanic
    /\ beforeLog = Registration
    /\ afterLog = Registration

C5_BeforePanicRunsAfter ==
    (Done /\ ViaApp /\ first.at = "before") =>
        /\ invoked = 0
        /\ afterLog = Registration
        /\ wire.status = StatusInternalServerError

MissingTemplate == first = Panic("invoke", "no template")

Resolved(contentType) == IF contentType = "" THEN "text/html" ELSE contentType

\* The format of a content type, "" for one that has none.
FormatOf(contentType) ==
    CASE contentType = "application/json" -> "json"
      [] contentType = "application/xml" -> "xml"
      [] contentType = "text/html" -> "html"
      [] contentType = "text/plain" -> "txt"
      [] OTHER -> ""

\* The format a RenderError call works with: the one the context has, or the
\* one of the content type.
CallFormat ==
    IF call.cIn.Format # "" THEN call.cIn.Format
    ELSE FormatOf(Resolved(call.rIn.ContentType))

IsRenderError == call.fn = "RenderError"

\* C8 as stated: every call of RenderError has written bytes when it returns.
C8_RenderErrorAlwaysWrites ==
    (IsRenderError /\ call.o.ret # "panic") => call.o.wrote

\* C8 amended: RenderError writes bytes exactly when it returns without an
\* error, which is when its context has Response and App, the content type has
\* a format, and the error template is missing (the reason phrase is written)
\* or executes (its output is written); with a content type that has no format
\* or a template that fails to execute it returns the error and writes nothing.
C8_RenderErrorWritesUnlessError ==
    IsRenderError =>
        /\ call.o.wrote <=> call.o.ret = "ok"
        /\ call.o.ret = "ok" <=>
            /\ call.cIn.hasResponse
            /\ call.cIn.hasApp
            /\ CallFormat # ""
            /\ ~call.found \/ call.execOK
        /\ call.o.wrote =>
            call.o.out = IF call.found
                         THEN TemplateOutput(errorTemplateName(call.arg), CallFormat)
                         ELSE StatusText(call.arg)

C8_Witness ==
    /\ IsRenderError
    /\ call.found
    /\ ~call.execOK
    /\ call.o.ret = "err"
    /\ ~call.o.wrote

\* C9: when RenderError finds no template of the status code (404 or 500) in
\* the resolved format, it leaves the status code on the response, the content
\* type text/plain and the reason phrase of the code as the bytes written; it
\* writes the reason phrase as plain text only then.
C9_MissingErrorTemplateIsPlainText ==
    IsRenderError =>
        /\ (call.cIn.hasResponse /\ call.cIn.hasApp /\ CallFormat # "" /\ ~call.found) =>
            /\ call.o.ret = "ok"
            /\ call.o.wrote
            /\ call.o.r.StatusCode = call.arg
            /\ call.o.r.ContentType = "text/plain"
            /\ call.o.out = StatusText(call.arg)
        /\ call.o.out = StatusText(call.arg) => ~call.found

C9_Witness ==
    /\ IsRenderError
    /\ call.arg = StatusNotFound
    /\ call.rIn.ContentType = "application/json"
    /\ ~call.found
    /\ call.o.r.ContentType = "text/plain"
    /\ call.o.out = StatusText(StatusNotFound)

\* C10: Render resolves the format from the content type of the response,
\* text/html when none is set, by the table json, xml, html, txt; for a content
\* type outside the table it returns the unknown-content-type error without a
\* template lookup and without output.  Controller.Render resolves the format
\* by the same table and panics with that error before its template lookup.
C10_FormatFromContentType ==
    /\ call.fn = "Render" =>
        LET ct == Resolved(call.rIn.ContentType)
        IN  /\ call.o.r.ContentType = ct
            /\ FormatOf(ct) # "" => (call.o.c.Format = FormatOf(ct) /\ call.o.lookedUp)
            /\ FormatOf(ct) = "" =>
                /\ call.o.ret = "err"
                /\ call.o.err = "unknown Content-Type"
                /\ ~call.o.lookedUp
                /\ ~call.o.wrote
            /\ call.o.wrote =>
                call.o.out = Execute(call.cIn.Name, FormatOf(ct), call.cIn.Data)
    /\ (call.fn = "Controller.Render" /\ call.arg <= 1) =>
        LET ct == call.rIn.ContentType
        IN  /\ FormatOf(ct) # "" => call.o.lookedUp
            /\ FormatOf(ct) = "" =>
                /\ call.o.ret = "panic"
                /\ call.o.err = "unknown Content-Type"
                /\ ~call.o.lookedUp
                /\ ~call.o.wrote
            /\ call.o.wrote =>
                call.o.out = Execute(call.cIn.Name, FormatOf(ct), call.cIn.Data)

C10_Witness ==
    /\ call.fn = "Render"
    /\ call.rIn.ContentType = "image/png"
    /\ call.o.err = "unknown Content-Type"
    /\ ~call.o.lookedUp

\* No fault has been raised in the request in flight.
NoFault == first = NoPanic

BodyTooLarge == Panic("parse", "http: request body too large")

\* C12: a body longer than Config.MaxClientBodySize fails its request only:
\* the error of the body parse is raised as a panic in render before any hook
\* or the handler action runs, the deferred function recovers and logs it, the
\* response is an error response of status 500, and no panic leaves render.
C12_OversizedBodyFailsRequest ==
    /\ ViaApp => ~escaped
    /\ (ViaApp /\ first = BodyTooLarge) =>
            /\ invoked = 0
            /\ beforeLog = <<>>
            /\ pc \in {"recover", "inner", "after", "proc", "done"}
            /\ pc # "recover" => (Len(log) >= 1 /\ log[1] = BodyTooLarge)
            /\ Done =>
                /\ wire.status = StatusInternalServerError
                /\ wire.body # ""

C12_Witness ==
    /\ Done
    /\ ViaApp
    /\ first = BodyTooLarge
    /\ wire.status = StatusInternalServerError
    /\ log[1] = BodyTooLarge

\* The body the template of the controller of a path renders in a format: the
\* template of /user/7 renders the id of the path.
ExpectedBody(p, format) ==
    "<" \o ControllerName(p) \o "." \o format \o ">" \o
        (IF p = "/user/7" THEN "-7" ELSE "")

\* C15: a request that matches a route, whose handler action renders its
\* existing template with the path parameters and where nothing faults, is
\* answered with status 200 and exactly the output of that template for those
\* parameters, by render and by handler.
C15_TemplateBody200 ==
    (Done /\ NoFault /\ ~NoMatch /\ call.fn \in {"Render", "Controller.Render"}
          /\ call.cIn.Data = Args(path)) =>
        /\ call.found
        /\ wire.status = StatusOK
        /\ wire.body = ExpectedBody(path, FormatOf(call.o.r.ContentType))
        /\ wire.body = call.o.out

C15_Witness ==
    /\ Done
    /\ NoFault
    /\ path = "/user/7"
    /\ call.fn = "Controller.Render"
    /\ wire.status = StatusOK
    /\ wire.body = "<User.html>-7"

\* The content type a renderer function sets when the response has none.
DefaultContentType(fn) ==
    CASE fn = "Render" -> "text/html"
      [] fn = "RenderJSON" -> "application/json"
      [] fn = "RenderXML" -> "application/xml"
      [] fn = "RenderText" -> "text/plain"

\* C16: Render, RenderJSON, RenderXML and RenderText leave a content type
\* that is set on the response as it is, whether they return an error or not,
\* and set their default (text/html, application/json, application/xml,
\* text/plain) when none is set.
C16_ContentTypeKept ==
    call.fn \in {"Render", "RenderJSON", "RenderXML", "RenderText"} =>
        call.o.r.ContentType = IF call.rIn.ContentType = ""
                               THEN DefaultContentType(call.fn)
                               ELSE call.rIn.ContentType

C16_Witness ==
    /\ call.fn = "RenderJSON"
    /\ call.rIn.ContentType = "text/plain"
    /\ call.o.ret = "ok"
    /\ call.o.r.ContentType = "text/plain"

IsSendFile == call.fn = "SendFile"

\* The resource set has content for the path of the SendFile call.
Embedded == call.arg.rc \in {"string", "bytes"}

\* The path of the SendFile call is found neither in the resource set nor on
\* the disk.
Missing == ~Embedded /\ call.arg.disk = "missing"

\* C17: SendFile reads an absolute path from the disk as given, whatever the
\* resource set holds; it reads a relative path from the resource set when that
\* has it and from AppPath/public/path otherwise.
C17_AbsolutePathReadDirectly ==
    (IsSendFile /\ call.o.ret = "ok") =>
        LET onDisk(at) ==
                \/ call.arg.disk = "file" /\ call.o.out = "file:" \o at
                \/ call.arg.disk = "missing" /\ call.o.calls = <<"SendFile", "RenderError">>
        IN  IF call.arg.abs THEN onDisk("/srv/" \o call.arg.name)
            ELSE IF Embedded THEN call.o.out = "resource:" \o call.arg.name
            ELSE onDisk("/app/public/" \o call.arg.name)

\* C18 as stated: SendFile of a path found nowhere calls RenderError once,
\* never SendFile again, and returns with the status code 404.
C18_MissingFileAlways404 ==
    (IsSendFile /\ Missing) =>
        /\ call.o.calls = <<"SendFile", "RenderError">>
        /\ call.o.r.StatusCode = StatusNotFound

\* C18 amended: SendFile of a path found nowhere calls RenderError once, never
\* SendFile again, and returns what RenderError returns.  While the content
\* type of the response has a format the status code is 404, and the 404 is
\* rendered (template output, or the reason phrase as text/plain without a
\* template) unless the template fails to execute; with a content type that
\* has no format the unknown-content-type error is returned, the status code
\* is left as it was and nothing is rendered.  A 404 rendered is the status of
\* the response when nothing faults afterwards.
C18_MissingFile404UnlessUnknownType ==
    (IsSendFile /\ Missing) =>
        /\ call.o.calls = <<"SendFile", "RenderError">>
        /\ CallFormat # "" =>
            /\ call.o.r.StatusCode = StatusNotFound
            /\ call.o.ret = "ok" <=> (~call.found \/ call.execOK)
            /\ ~call.found =>
                /\ call.o.out = StatusText(StatusNotFound)
                /\ call.o.r.ContentType = "text/plain"
        /\ CallFormat = "" =>
            /\ call.o.ret = "err"
            /\ call.o.err = "unknown Content-Type"
            /\ call.o.r.StatusCode = call.rIn.StatusCode
            /\ ~call.o.wrote
        /\ (Done /\ NoFault) =>
            /\ wire.status = StatusNotFound
            /\ wire.body = call.o.out

C18_Witness ==
    /\ IsSendFile
    /\ Missing
    /\ ~call.found
    /\ Done
    /\ NoFault
    /\ wire.status = StatusNotFound
    /\ wire.body = StatusText(StatusNotFound)

\* C19: SendFile of a file it finds sets the content type by detection only
\* when the response has none; a content type set before the call is kept.
C19_SendFileKeepsContentType ==
    (IsSendFile /\ ~Missing /\ call.o.ret = "ok") =>
        call.o.r.ContentType =
            IF call.rIn.ContentType # "" THEN call.rIn.ContentType
            ELSE IF call.arg.name = "logo.png" THEN "image/png"
            ELSE "text/plain; charset=utf-8"

\* The first error among the steps of New, in their order ("nil": none).
FirstFailure(config) ==
    CASE validateSessionConfig(config) # "nil" -> validateSessionConfig(config)
      [] buildResourceSet(config) # "nil" -> buildResourceSet(config)
      [] config.TemplateSet = "bad" -> "template build error"
      [] config.RouteTable = "bad" -> "route table build error"
      [] OTHER -> "nil"

\* C13: New returns a nil Application and the error of the first step that
\* fails (session validation, resource set, templates, router, in that order)
\* and a non-nil Application and no error when none fails; Run returns the
\* error of New without listening, and listens only for a Config whose steps
\* all succeeded.
C13_ConfigErrorsAbortStartup ==
    /\ startup.pc # "run" =>
            /\ startup.err = FirstFailure(startup.given)
            /\ startup.nilApp <=> startup.err # "nil"
    /\ (startup.pc # "run" /\ startup.err # "nil") =>
            /\ startup.pc \in {"new", "returned"}
            /\ ~startup.listening
            /\ startup.pc = "returned" => startup.ret = startup.err
    /\ startup.listening =>
            /\ validateSessionConfig(startup.given) = "nil"
            /\ startup.given.TemplateSet = "ok"
            /\ startup.given.RouteTable = "ok"

C13_Witness ==
    /\ startup.pc = "returned"
    /\ validateSessionConfig(startup.given) = "nil"
    /\ startup.given.TemplateSet = "ok"
    /\ startup.given.RouteTable = "bad"
    /\ startup.nilApp
    /\ startup.ret = "route table build error"
    /\ ~startup.listening

\* The dispatches that have touched a location.
Touched(l) == readers[l] \cup writers[l]

\* C14: of two dispatches running concurrently on one Application no
\* location is written by one and read or written by the other: each writes
\* only the Request, Response, controller, Controller context and Result it
\* allocated, what New built is only read, and the context a dispatch reads in
\* its After hooks holds what the dispatch itself wrote.
C14_DispatchesShareNoWrittenState ==
    /\ \A l \in Locs :
            /\ writers[l] # {} => Touched(l) = writers[l] /\ Cardinality(writers[l]) = 1
            /\ writers[l] \subseteq {l[1]}
            /\ l[1] = 0 => writers[l] = {}
    /\ \A d \in Dispatches :
            dispatches[d].pc \in {"write", "done"} =>
                dispatches[d].seen = ControllerName(dispatches[d].path)
    /\ \A d, e \in Dispatches : d # e => ContextOf(d) # ContextOf(e)

C14_Witness ==
    /\ dispatches[1].pc = "after"
    /\ dispatches[2].pc = "after"
    /\ dispatches[1].path = "/"
    /\ dispatches[2].path = "/user/7"
    /\ readers[App("MimeTypeFormats")] = {1, 2}
    /\ writers[Own(1, "Controller")] = {1}
    /\ writers[Own(2, "Controller")] = {2}

Rooted(s) == s # <<>> /\ s[1] = "/"
EndsWithSlash(s) == s # <<>> /\ s[Len(s)] = "/"
HasDoubledSlash(s) == \E i \in 1..(Len(s) - 1) : s[i] = "/" /\ s[i + 1] = "/"

RECURSIVE Elements(_)
\* The elements of a path: the runs of characters between its slashes.
Elements(s) ==
    IF s = <<>> THEN <<>>
    ELSE IF s[1] = "/" THEN Elements(Tail(s))
    ELSE LET e == ElementEnd(s, 0)
         IN  <<SubSeq(s, 1, e)>> \o Elements(SubSeq(s, e + 1, Len(s)))

RECURSIVE Canonical(_, _, _)
\* The elements es pushed on the stack: "." is dropped, ".." takes the element
\* before it away, or is dropped at the root, or stays at the start of a
\* relative path.
Canonical(es, stack, rooted) ==
    IF es = <<>> THEN stack
    ELSE LET e == Head(es)
             top == IF stack = <<>> THEN <<>> ELSE stack[Len(stack)]
         IN  CASE e = <<".">> -> Canonical(Tail(es), stack, rooted)
               [] e = <<".", ".">> /\ stack # <<>> /\ top # <<".", ".">> ->
                    Canonical(Tail(es), SubSeq(stack, 1, Len(stack) - 1), rooted)
               [] e = <<".", ".">> /\ rooted -> Canonical(Tail(es), stack, rooted)
               [] OTHER -> Canonical(Tail(es), Append(stack, e), rooted)

\* The result of normPath has no "." and no ".." element.
NoDotElement(s) ==
    \A i \in DOMAIN Elements(s) : Elements(s)[i] \notin {<<".">>, <<".", ".">>}

\* C20 as stated: for a path that is not empty the result of normPath has no
\* "." element, no ".." element and no doubled slash, and ends with a slash
\* exactly when the input does or the result is the root.
C20_NormPathNoDotElement ==
    (normed.done /\ normed.p # <<>>) =>
        /\ ~normed.panicked
        /\ ~HasDoubledSlash(normed.result)
        /\ NoDotElement(normed.result)
        /\ EndsWithSlash(normed.result) <=>
                (EndsWithSlash(normed.p) \/ normed.result = <<"/">>)

\* C20 amended: for a path that is not empty normPath returns the canonical path: no
\* doubled slash, rooted as the input is, its elements those of the input
\* without "." and with ".." resolved; it ends with a slash exactly when the
\* input does (one slash, put back after cleaning), except that what cleans to
\* the root is "/" with or without one.  A rooted path has no "." and no ".."
\* element left; a relative path that cleans to nothing is "." and one that
\* climbs above its start keeps its leading ".." elements.
C20_NormPathCanonical ==
    (normed.done /\ normed.p # <<>>) =>
        LET p == normed.p
            r == normed.result
            canon == Canonical(Elements(p), <<>>, Rooted(p))
        IN  /\ ~normed.panicked
            /\ ~HasDoubledSlash(r)
            /\ Rooted(r) <=> Rooted(p)
            /\ IF canon = <<>>
               THEN r = IF Rooted(p) THEN <<"/">>
                        ELSE IF EndsWithSlash(p) THEN <<".", "/">> ELSE <<".">>
               ELSE /\ Elements(r) = canon
                    /\ EndsWithSlash(r) <=> EndsWithSlash(p)
            /\ Rooted(p) => NoDotElement(r)
            /\ normPath(r) = r

C20_Witness ==
    /\ normed.done
    /\ normed.p = <<"/", "a", "/", ".", "/">>
    /\ normed.result = <<"/", "a", "/">>

---------------------------------------------------------------------------
\* An After hook panicked during the request.
AfterFault == \E i \in DOMAIN log : log[i].at = "after"

---------------------------------------------------------------------------
\* The recovery of render has called the Get of the 500 ErrorController.
RecoveryCalled ==
    /\ ViaApp
    /\ call.fn = "RenderError"
    /\ call.arg = StatusInternalServerError
    /\ first.at \in {"bug", "parse", "before", "invoke"}

\* C23: the context the recovery of render hands to the 500 ErrorController
\* and to the After hooks has its Request and its Response, wherever the panic
\* was raised: the switch on the Controller field, the body parse, a Before
\* hook or the handler action.
C23_RecoveryContextHasWrappers ==
    /\ RecoveryCalled => (call.cIn.hasRequest /\ call.cIn.hasResponse)
    /\ (ViaApp /\ pc = "after" /\ idx \in Middlewares) =>
           (cc.hasRequest /\ cc.hasResponse)

---------------------------------------------------------------------------
\* The errors of the session validation.
SessionErrors == {"Session is nil", "Session.Store is nil", "invalid session"}

\* C24: with a SessionMiddleware in Config.Middlewares the session validation
\* of New fails exactly when Config.Session or its Store is nil, and
\* Config.Session.Validate is not called; without one the validation fails
\* exactly when Config.Session.Validate returns an error, with that error.
C24_SessionValidationByMiddleware ==
    startup.pc # "run" =>
        IF startup.given.sessionMiddleware # 0
        THEN /\ ~startup.validated
             /\ startup.given.Session = "nil" => startup.err = "Session is nil"
             /\ (startup.given.Session # "nil" /\ startup.given.Store = "nil") =>
                    startup.err = "Session.Store is nil"
             /\ (startup.given.Session # "nil" /\ startup.given.Store # "nil") =>
                    startup.err \notin SessionErrors
        ELSE /\ startup.validated
             /\ startup.given.Validate # "nil" => startup.err = startup.given.Validate
             /\ startup.given.Validate = "nil" => startup.err \notin SessionErrors

\* A Config with a SessionMiddleware, a Session and a Store that
\* Config.Session.Validate would reject: New succeeds and Run listens.
C24_Witness ==
    /\ startup.pc = "listening"
    /\ startup.given.sessionMiddleware # 0
    /\ startup.given.Session = "set"
    /\ startup.given.Store = "set"
    /\ startup.given.Validate = "invalid session"
    /\ startup.err = "nil"
    /\ ~startup.nilApp

---------------------------------------------------------------------------
\* The last line read was a yes (the empty line included), or a no.
SaidYes ==
    /\ copying.answers # <<>>
    /\ copying.answers[Len(copying.answers)] \in {"", "y", "Y", "yes", " Yes "}

SaidNo ==
    /\ copying.answers # <<>>
    /\ copying.answers[Len(copying.answers)] \in {"n", "N", "no", " NO"}

\* C25: CopyTemplate creates or truncates a destination that existed only
\* when its content differs from the rendered template and the user has
\* answered yes.  When it returns, a destination that did not exist holds the
\* rendered template; one with the same content was not written and nothing
\* was asked; one with another content holds the rendered template after a
\* yes and is as it was after a no.
C25_NoOverwriteWithoutConfirmation ==
    /\ (copying.original.exists /\ (copying.dst # copying.original \/ copying.creates > 0)) =>
            /\ SaidYes
            /\ copying.original.readable
            /\ copying.original.content # copying.bufFrom
    /\ copying.pc = "done" =>
            /\ copying.bufFrom = ExecuteFile(copying.template, copying.data)
            /\ CASE ~copying.original.exists ->
                        /\ copying.dst = File(copying.bufFrom, TRUE)
                        /\ copying.creates = 1
                        /\ copying.answers = <<>>
                 [] copying.original.exists /\ copying.original.content = copying.bufFrom ->
                        /\ copying.dst = copying.original
                        /\ copying.creates = 0
                        /\ copying.answers = <<>>
                 [] OTHER ->
                        IF SaidYes
                        THEN /\ copying.dst = File(copying.bufFrom, TRUE)
                             /\ copying.creates = 1
                        ELSE /\ SaidNo
                             /\ copying.dst = copying.original
                             /\ copying.creates = 0

\* A destination with another content is overwritten after an answer
\* confirmOverwrite does not know and an empty line.
C25_Witness ==
    /\ copying.pc = "done"
    /\ copying.original = File("package Old", TRUE)
    /\ copying.bufFrom = "package Root"
    /\ copying.answers = <<"x", "">>
    /\ copying.dst = File("package Root", TRUE)
    /\ copying.printed = <<"conflict", "overwrite">>

---------------------------------------------------------------------------
\* C21: within one request every stage finds the context as the stages
\* before it left it: the handler action finds what the Before hooks did to
\* the context, and the After hooks find what the handler action did to its
\* context, whether the controller embeds a Controller or a *Controller.
C21_OneContextForAllStages ==
    \A i \in DOMAIN threading.seen : threading.seen[i].got = threading.seen[i].want

====
